---- MODULE Spec2Model ----
(***************************************************************************)
(* Model of the r2cn mentor-link API glue:                                 *)
(*   - api/src/confernece_router.rs : conference_create, account_auth,     *)
(*                                     next_tuesday_8pm                    *)
(*   - api/src/model/huawei_meeting : From<Conferences> for ActiveModel    *)
(*   - api/src/email.rs             : EmailSender and the notifications    *)
(*                                                                         *)
(* Rust's Option<T> is a sequence of length 0 (None) or 1 (Some(x)), so    *)
(* that Vec<Option<T>>::into_iter().flatten() is concatenation.  sea_orm's *)
(* ActiveValue is modelled the same way: NotSet is <<>>, Set(x) is <<x>>.  *)
(***************************************************************************)
EXTENDS Integers, Sequences, FiniteSets, Bags, TLC

None == <<>>
Some(x) == <<x>>
IsSome(o) == Len(o) = 1
Unwrap(o) == o[1]

NotSet == <<>>
Set(x) == <<x>>

(***************************************************************************)
(* Time.  An instant is a number of minutes since an epoch that falls on a *)
(* Monday 00:00 UTC.  The host's time zone (chrono::Local) has a base      *)
(* offset and at most one offset transition (daylight saving) in the       *)
(* window that is modelled.                                                *)
(***************************************************************************)
MaxDays == 8

HoursPerDay == 24
MinutesPerHour == 60
MinutesPerDay == HoursPerDay * MinutesPerHour
DaysPerWeek == 7
TueFromMonday == 1
TargetHour == 20
TargetMinute == 0

FixedZone(base) == [base |-> base, at |-> -1, shift |-> 0]
DstZone(base, at, shift) == [base |-> base, at |-> at, shift |-> shift]

\* chrono::Local: the UTC offset in force at a UTC instant
OffsetAt(zone, utc) ==
    zone.base + (IF zone.at >= 0 /\ utc >= zone.at THEN zone.shift ELSE 0)

\* DateTime<Local>::naive_local
NaiveLocal(zone, utc) == utc + OffsetAt(zone, utc)

\* NaiveDateTime::date, as a day number, and ::time, as minutes of the day
DateOf(naive) == naive \div MinutesPerDay
TimeOf(naive) == naive % MinutesPerDay

\* Weekday::num_days_from_monday of a date
NumDaysFromMonday(date) == date % DaysPerWeek

\* NaiveTime::from_hms_opt(20, 0, 0)
TargetTime == TargetHour * MinutesPerHour + TargetMinute

\* the match on now.weekday() of next_tuesday_8pm
DaysToAdd(weekday, time) ==
    IF weekday = TueFromMonday /\ time < TargetTime THEN 0
    ELSE IF weekday = TueFromMonday THEN DaysPerWeek
    ELSE (TueFromMonday + DaysPerWeek - weekday) % DaysPerWeek

\* DateTime<Local> + Duration: the duration is added to the UTC instant and
\* the zone's offset is looked up again at the new instant
AddDays(utc, days) == utc + days * MinutesPerDay

\* .date_naive().and_time(target_time).and_utc().format("%Y-%m-%d %H:%M")
FormatYmdHm(date, time) ==
    [date |-> date, hour |-> time \div MinutesPerHour, minute |-> time % MinutesPerHour]

next_tuesday_8pm(zone, utc) ==
    LET local == NaiveLocal(zone, utc)
        days_to_add == DaysToAdd(NumDaysFromMonday(DateOf(local)), TimeOf(local))
        next_tuesday_date == AddDays(utc, days_to_add)
    IN  FormatYmdHm(DateOf(NaiveLocal(zone, next_tuesday_date)), TargetTime)

\* the naive date-time a formatted result denotes, in minutes
NaiveOf(str) == str.date * MinutesPerDay + str.hour * MinutesPerHour + str.minute

\* the host zones of the model: a fixed offset (UTC, UTC+8), or a zone
\* whose clocks go one hour forward or back at 02:00 local on some day
BaseOffsets == {0, 8 * MinutesPerHour}
Zones ==
    { FixedZone(b) : b \in BaseOffsets }
    \cup { DstZone(MinutesPerHour,
                   d * MinutesPerDay + MinutesPerHour,
                   s) :
           d \in 1..(MaxDays + DaysPerWeek), s \in {MinutesPerHour, -MinutesPerHour} }

Instants == 0..(MaxDays * MinutesPerDay - 1)

(***************************************************************************)
(* Email: templates, addresses, storage records.  A template name is a     *)
(* stem and an extension: "task_assigned.mjml" is stem task_assigned,      *)
(* extension mjml.                                                         *)
(***************************************************************************)
MaxCc == 2

Name(stem, ext) == [stem |-> stem, ext |-> ext]

\* self.template_name.ends_with(".mjml")
EndsWithMjml(template_name) == template_name.ext = "mjml"

KnownStems == {"task_assigned", "task_failed", "task_completed_points",
               "monthly_points_summary"}
TemplateNames ==
    { Name(st, "mjml") : st \in KnownStems \cup {"welcome"} }
    \cup { Name(st, "html") : st \in {"task_assigned", "welcome"} }

Image(path, cid) == [path |-> path, cid |-> cid]

\* mutant: the status image comes before the background
cid_images_status_first(template_name) ==
    IF template_name = Name("task_assigned", "mjml")
    THEN <<Image("templates/image/task_assigned.png", "task_status"),
           Image("templates/image/background.png", "background")>>
    ELSE IF template_name = Name("task_failed", "mjml")
    THEN <<Image("templates/image/task_failed.png", "task_status"),
           Image("templates/image/background.png", "background")>>
    ELSE IF template_name = Name("task_completed_points", "mjml")
    THEN <<Image("templates/image/task_completed.png", "task_status"),
           Image("templates/image/background.png", "background")>>
    ELSE IF template_name = Name("monthly_points_summary", "mjml")
    THEN <<Image("templates/image/task_points.png", "task_status"),
           Image("templates/image/background.png", "background")>>
    ELSE <<Image("templates/image/background.png", "background")>>

cid_images_for_template(template_name) ==
    LET imgs == <<Image("templates/image/background.png", "background")>>
    IN  IF template_name = Name("task_assigned", "mjml")
        THEN Append(imgs, Image("templates/image/task_assigned.png", "task_status"))
        ELSE IF template_name = Name("task_failed", "mjml")
        THEN Append(imgs, Image("templates/image/task_failed.png", "task_status"))
        ELSE IF template_name = Name("task_completed_points", "mjml")
        THEN Append(imgs, Image("templates/image/task_completed.png", "task_status"))
        ELSE IF template_name = Name("monthly_points_summary", "mjml")
        THEN Append(imgs, Image("templates/image/task_points.png", "task_status"))
        ELSE imgs

\* addresses, and which of them lettre parses as a mailbox
WellFormed == {"alice@example.com", "bob@example.com", "carol@example.com",
               "dave@example.com"}
Malformed == {"not-an-address"}
Addresses == WellFormed \cup Malformed

\* str::parse::<Mailbox>()
ParseMailbox(addr) ==
    IF addr \in WellFormed THEN [ok |-> TRUE, val |-> [email |-> addr]]
    ELSE [ok |-> FALSE, val |-> <<>>]

StudentLogins == {"alice", "bob"}
MentorLogins == {"carol", "dave"}

OwnAddress(login) ==
    CASE login = "alice" -> "alice@example.com"
      [] login = "bob" -> "bob@example.com"
      [] login = "carol" -> "carol@example.com"
      [] login = "dave" -> "dave@example.com"

\* student::Model rows a login can have
StudentRows(login) ==
    { [github_login |-> login, student_name |-> <<"name", login>>, email |-> e] :
        e \in {OwnAddress(login)} \cup Malformed }

\* mentor rows a login can have (MentorRes: email and status)
MentorRows(login) ==
    { [github_login |-> login, email |-> OwnAddress(login), status |-> st] :
        st \in {"active", "inactive"} }
    \cup { [github_login |-> login, email |-> e, status |-> "active"] : e \in Malformed }

Options(S) == {None} \cup { Some(x) : x \in S }

StudentTables ==
    { [l \in StudentLogins |-> IF l = "alice" THEN a ELSE b] :
        a \in Options(StudentRows("alice")), b \in Options(StudentRows("bob")) }
MentorTables ==
    { [l \in MentorLogins |-> IF l = "carol" THEN c ELSE d] :
        c \in Options(MentorRows("carol")), d \in Options(MentorRows("dave")) }

\* task::Model as the notifications read it
Task(student_login, mentor_login) ==
    [ student_github_login |-> student_login,
      mentor_github_login  |-> mentor_login,
      github_issue_title   |-> "title",
      github_issue_link    |-> "link",
      owner                |-> "owner",
      repo                 |-> "repo" ]

\* util::project_link
project_link(task) == <<"https://github.com", task.owner, task.repo>>

\* MentorStatus::Active of the MentorRes a row converts into
IsActive(model) == model.status = "active"

\* Vec<Option<String>>::into_iter().flatten().collect()
RECURSIVE Flatten(_)
Flatten(opts) ==
    IF opts = <<>> THEN <<>> ELSE Head(opts) \o Flatten(Tail(opts))

\* EmailSender::new
New(template_name, subject, context, receiver, cc_email) ==
    [ template_name |-> template_name,
      subject       |-> subject,
      context       |-> context,
      receiver      |-> receiver,
      cc_email      |-> Flatten(cc_email) ]

TaskKinds == {"assigned", "failed", "complete"}
Kinds == TaskKinds \cup {"monthly", "direct"}

\* mutant: the failure and the completion notification exchange templates
TemplateOfExchanged(kind) ==
    CASE kind = "assigned" -> Name("task_assigned", "mjml")
      [] kind = "failed" -> Name("task_completed_points", "mjml")
      [] kind = "complete" -> Name("task_failed", "mjml")
      [] kind = "monthly" -> Name("monthly_points_summary", "mjml")

\* the template literal each notification passes to EmailSender::new
TemplateOf(kind) ==
    CASE kind = "assigned" -> Name("task_assigned", "mjml")
      [] kind = "failed" -> Name("task_failed", "mjml")
      [] kind = "complete" -> Name("task_completed_points", "mjml")
      [] kind = "monthly" -> Name("monthly_points_summary", "mjml")

\* the subject each notification passes to EmailSender::new
SubjectOf(kind, month) ==
    CASE kind = "assigned" -> <<"R2CN Task Assigned">>
      [] kind = "failed" -> <<"R2CN Task Failure">>
      [] kind = "complete" -> <<"R2CN Task Successful">>
      [] kind = "monthly" -> <<"R2CN Monthly Score Report", month>>

\* the tera::Context of the task notifications
TaskContext(kind, student_row, task, balance) ==
    [ student_name |-> student_row.student_name,
      task_title   |-> task.github_issue_title,
      task_link    |-> task.github_issue_link,
      mentor_name  |-> task.mentor_github_login,
      points_total |-> IF kind = "complete" THEN Some(balance) ELSE None,
      project_link |-> project_link(task) ]

\* the tera::Context of monthly_score_email
MonthlyContext(student_row, last_month) ==
    [ student_name          |-> student_row.student_name,
      points_earned_month   |-> last_month.new_score,
      points_redeemed_month |-> last_month.consumption_score,
      points_balance        |-> last_month.balance ]

\* the stages of rendering that can fail: render_mjml, or Tera alone
RenderStages(template_name) ==
    IF EndsWithMjml(template_name)
    THEN {"tera_init", "tera_render", "mjml_parse", "mjml_render"}
    ELSE {"tera_init", "tera_render"}

\* the cc loop of send: the addresses that parse, in order
\* mutant: the first address that fails to parse ends the loop
RECURSIVE CcMailboxesUntilBad(_)
CcMailboxesUntilBad(cc) ==
    IF cc = <<>> \/ ~ParseMailbox(Head(cc)).ok THEN <<>>
    ELSE <<ParseMailbox(Head(cc)).val>> \o CcMailboxesUntilBad(Tail(cc))

RECURSIVE CcMailboxes(_)
CcMailboxes(cc) ==
    IF cc = <<>> THEN <<>>
    ELSE (IF ParseMailbox(Head(cc)).ok THEN <<ParseMailbox(Head(cc)).val>> ELSE <<>>)
         \o CcMailboxes(Tail(cc))

\* one log line per element of a sequence that fails a test
RECURSIVE Lines(_, _)
Lines(n, line) == IF n = 0 THEN <<>> ELSE <<line>> \o Lines(n - 1, line)

RECURSIVE Orderings(_)
Orderings(S) ==
    IF S = {} THEN {<<>>}
    ELSE UNION { { <<x>> \o p : p \in Orderings(S \ {x}) } : x \in S }

(***************************************************************************)
(* The third-party meeting platform and the conference table.              *)
(***************************************************************************)
NumReqs == 2
MaxConfs == 2

Reqs == 1..NumReqs
ConfIds == {"c1", "c2"}

\* model::huawei_meeting::Conferences, as the platform returns it for a
\* booking cid
Conferences(cid) ==
    [ conference_id    |-> cid,
      subject          |-> <<"subject", cid>>,
      start_time       |-> <<"start", cid>>,
      end_time         |-> <<"end", cid>>,
      conference_state |-> "Schedule",
      language         |-> "zh-CN",
      record_type      |-> 2,
      is_auto_record   |-> 1,
      conf_type        |-> "FUTURE",
      chair_join_uri   |-> <<"chair", cid>>,
      guest_join_uri   |-> <<"guest", cid>>,
      scheduser_name   |-> "r2cn" ]

RECURSIVE SeqsUpTo(_, _)
SeqsUpTo(S, n) ==
    IF n = 0 THEN {<<>>}
    ELSE LET shorter == SeqsUpTo(S, n - 1)
         IN  shorter \cup { Append(q, x) : q \in shorter, x \in S }

\* the sequences without repetition
Distinct(seqs) ==
    { q \in seqs : \A i, j \in DOMAIN q : i # j => q[i] # q[j] }

\* response bodies of POST /v1/mmc/management/conferences: a JSON list of
\* conferences (each conference at most once in a list), or something else
\* (an error object, not JSON at all)
ListBody(items) == [kind |-> "list", items |-> items]
OtherBody == [kind |-> "other", items |-> <<>>]
Bodies ==
    { ListBody(items) :
        items \in Distinct(SeqsUpTo({Conferences(c) : c \in ConfIds}, MaxConfs)) }
    \cup {OtherBody}

Ok(x) == [ok |-> TRUE, val |-> x]
Err == [ok |-> FALSE, val |-> <<>>]

\* serde_json::from_str::<Vec<Conferences>>(&body)
ParseConferences(b) == IF b.kind = "list" THEN Ok(b.items) ELSE Err

\* mutant: start_time and end_time are exchanged
FromConferencesSwapped(value, utc_now) ==
    [ id               |-> NotSet,
      platform_type    |-> Set("huaweimeeting"),
      subject          |-> Set(value.subject),
      start_time       |-> Set(value.end_time),
      end_time         |-> Set(value.start_time),
      conference_state |-> Set(value.conference_state),
      conference_id    |-> Set(value.conference_id),
      language         |-> Set(value.language),
      scheduser_name   |-> Set(value.scheduser_name),
      record_type      |-> Set(value.record_type),
      is_auto_record   |-> Set(value.is_auto_record),
      conf_type        |-> Set(value.conf_type),
      chair_join_uri   |-> Set(value.chair_join_uri),
      guest_join_uri   |-> Set(value.guest_join_uri),
      create_at        |-> Set(utc_now),
      update_at        |-> Set(utc_now) ]

\* impl From<Conferences> for conference::ActiveModel
FromConferences(value, utc_now) ==
    [ id               |-> NotSet,
      platform_type    |-> Set("huaweimeeting"),
      subject          |-> Set(value.subject),
      start_time       |-> Set(value.start_time),
      end_time         |-> Set(value.end_time),
      conference_state |-> Set(value.conference_state),
      conference_id    |-> Set(value.conference_id),
      language         |-> Set(value.language),
      scheduser_name   |-> Set(value.scheduser_name),
      record_type      |-> Set(value.record_type),
      is_auto_record   |-> Set(value.is_auto_record),
      conf_type        |-> Set(value.conf_type),
      chair_join_uri   |-> Set(value.chair_join_uri),
      guest_join_uri   |-> Set(value.guest_join_uri),
      create_at        |-> Set(utc_now),
      update_at        |-> Set(utc_now) ]

\* conf.first(): Option of the first element
First(conf) == IF Len(conf) = 0 THEN None ELSE Some(conf[1])

\* ConferenceStorage::save_conf: the record is inserted as a new row
save_conf(table, a_model) == Append(table, a_model)

VARIABLES
    now,          \* the UTC instant Local::now() reads
    zone,         \* the host's local time zone
    tuesday,      \* Option: the last result of next_tuesday_8pm
    api_host,     \* whether HUAWEI_MEETING_API_ENDPOINT is set
    pc,           \* per request: position in conference_create
    app_auth,     \* per request: Option of the AppAuth account_auth returned
    sent,         \* per request: Option of the creation request it issued
    res,          \* per request: Option of the creation response received
    body,         \* per request: Option of the response body it read
    a_model,      \* per request: Option of the ActiveModel handed to save_conf
    ret,          \* per request: Option of the handler's return value
    calls,        \* per request: how often each outbound step was performed
    logged,       \* per request: number of tracing::error! lines
    issued,       \* platform: issued[t] is the request token t was issued to
    booked,       \* platform: per creation request, the conferences booked
    conferences,  \* the conference table, in insertion order
    einv,         \* the notification invoked and its arguments
    env,          \* whether TEMPLATE_DIR, and ZEPTO_AK and ZEPTO_SK, are set
    students,     \* the student table, by github login
    mentors,      \* the mentor table, by github login
    epc,          \* position in the notification and in EmailSender::send
    student,      \* Option: the student row the notification works with
    cc_email,     \* the Vec<Option<String>> passed to EmailSender::new
    sender,       \* Option: the EmailSender constructed
    render_result, \* Option: the Result of rendering the template
    message,      \* Option: the lettre Message built
    readable,     \* the image files create_cid_attachment could read
    smtp,         \* mailer.send: how often it was called, and its last result
    elog,         \* the tracing lines of the invocation, in order
    lookups       \* storage lookups performed: student, mentor

tueVars == <<now, zone, tuesday>>
confVars == <<api_host, pc, app_auth, sent, res, body, a_model, ret, calls, logged, issued, booked,
              conferences>>
emailVars == <<einv, env, students, mentors, epc, student, cc_email, sender, render_result,
               message, readable, smtp, elog, lookups>>
vars == <<now, zone, tuesday, api_host, pc, app_auth, sent, res, body, a_model, ret, calls, logged,
          issued, booked, conferences, einv, env, students, mentors, epc, student, cc_email,
          sender, render_result, message, readable, smtp, elog, lookups>>

NoCalls == [auth |-> 0, create |-> 0, save |-> 0]

NoScore == [year |-> 2025, month |-> 12, new_score |-> 0, consumption_score |-> 0,
            balance |-> 0]

Invocation(kind, task, balance, st, last_month, finished, template, receiver, cc) ==
    [ kind |-> kind, task |-> task, balance |-> balance, student_arg |-> st,
      last_month |-> last_month, finished |-> finished,
      template_name |-> template, receiver |-> receiver, cc |-> cc ]

NoInvocation ==
    Invocation("none", Task(None, "carol"), 0, None, NoScore, {},
               Name("welcome", "html"), "alice@example.com", <<>>)

EmptyTable(logins) == [l \in logins |-> None]

\* the local variables of a notification before it runs
EmailLocalsFresh ==
    /\ student = None
    /\ cc_email = <<>>
    /\ sender = None
    /\ render_result = None
    /\ message = None
    /\ readable = {}
    /\ smtp = [attempts |-> 0, result |-> "none"]
    /\ elog = <<>>
    /\ lookups = [student |-> 0, mentor |-> 0, task |-> 0]

EmailIdle ==
    /\ einv = NoInvocation
    /\ env = [template_dir |-> TRUE, zepto |-> TRUE]
    /\ students = EmptyTable(StudentLogins)
    /\ mentors = EmptyTable(MentorLogins)
    /\ epc = "idle"
    /\ EmailLocalsFresh

ConfIdle ==
    /\ pc = [r \in Reqs |-> "start"]
    /\ app_auth = [r \in Reqs |-> None]
    /\ sent = [r \in Reqs |-> None]
    /\ res = [r \in Reqs |-> None]
    /\ body = [r \in Reqs |-> None]
    /\ a_model = [r \in Reqs |-> None]
    /\ ret = [r \in Reqs |-> None]
    /\ calls = [r \in Reqs |-> NoCalls]
    /\ logged = [r \in Reqs |-> 0]
    /\ issued = <<>>
    /\ booked = [r \in Reqs |-> <<>>]
    /\ conferences = <<>>

(***************************************************************************)
(* next_tuesday_8pm on its own, for every instant and host zone.           *)
(***************************************************************************)
InitTue ==
    /\ now \in Instants
    /\ zone \in Zones
    /\ tuesday = None
    /\ api_host = TRUE
    /\ ConfIdle
    /\ EmailIdle

CallNextTuesday ==
    /\ tuesday = None
    /\ tuesday' = Some(next_tuesday_8pm(zone, now))
    /\ UNCHANGED <<now, zone>>
    /\ UNCHANGED <<confVars, emailVars>>

NextTue == CallNextTuesday

SpecTue == InitTue /\ [][NextTue]_vars

(***************************************************************************)
(* conference_create (POST /conference/new), one process per request.      *)
(* Every .await is a step; a panic (an unwrap of an Err or a None) ends   *)
(* the request with no return value.                                       *)
(***************************************************************************)
AuthOutcomes == {"ok", "transport_error", "bad_body"}

Bump(r, step) == [calls EXCEPT ![r][step] = @ + 1]

\* mutant: a failed authentication is tried again
OnAuthErrorRetry == "start"

\* account_auth().await.unwrap() on an Err, and the unwraps inside account_auth
OnAuthError == "panicked"

\* mutant: the creation call carries a token that no authentication returned
XAccessTokenStale(r) == 0

\* .header("X-Access-Token", app_auth.access_token)
XAccessToken(r) == Unwrap(app_auth[r]).access_token

\* mutant: the body is kept in a slot that all requests share
SharedBody(r) == body[CHOOSE q \in Reqs : IsSome(body[q])]

\* let body = res.text().await.unwrap(): the handler's own local
OwnBody(r) == body[r]

\* mutant: a parse failure is reported to the HTTP caller
RetAfterParseErrorStatus == Some("Err")

\* the Err(err) arm of the match, then Ok(())
RetAfterParseError == Some("Ok")

\* account_auth: POST /v1/usg/acs/auth/account, read and parse the AppAuth
AccountAuth(r) ==
    /\ pc[r] = "start"
    /\ IF ~api_host
       THEN /\ pc' = [pc EXCEPT ![r] = "panicked"]
            /\ UNCHANGED <<app_auth, calls, logged, issued>>
       ELSE \E o \in AuthOutcomes :
            /\ calls' = Bump(r, "auth")
            /\ IF o = "ok"
               THEN /\ issued' = Append(issued, r)
                    /\ app_auth' = [app_auth EXCEPT
                                      ![r] = Some([access_token |-> Len(issued) + 1])]
                    /\ pc' = [pc EXCEPT ![r] = "authed"]
                    /\ UNCHANGED logged
               ELSE /\ pc' = [pc EXCEPT ![r] = OnAuthError]
                    /\ logged' = [logged EXCEPT
                                    ![r] = @ + (IF o = "bad_body" THEN 2 ELSE 0)]
                    /\ UNCHANGED <<app_auth, issued>>
    /\ UNCHANGED <<api_host, sent, res, body, a_model, ret, booked, conferences>>
    /\ UNCHANGED <<tueVars, emailVars>>

\* next_tuesday_8pm, then POST /v1/mmc/management/conferences
CreateConference(r) ==
    /\ pc[r] = "authed"
    /\ calls' = Bump(r, "create")
    /\ sent' = [sent EXCEPT ![r] = Some([token |-> XAccessToken(r),
                                         startTime |-> next_tuesday_8pm(zone, now)])]
    /\ \/ /\ pc' = [pc EXCEPT ![r] = "panicked"]
          /\ UNCHANGED <<res, booked>>
       \/ \E b \in Bodies :
          /\ res' = [res EXCEPT ![r] = Some(b)]
          /\ booked' = [booked EXCEPT ![r] = b.items]
          /\ pc' = [pc EXCEPT ![r] = "responded"]
    /\ UNCHANGED <<api_host, app_auth, body, a_model, ret, logged, issued, conferences>>
    /\ UNCHANGED <<tueVars, emailVars>>

\* res.text().await.unwrap()
ReadBody(r) ==
    /\ pc[r] = "responded"
    /\ \/ /\ pc' = [pc EXCEPT ![r] = "panicked"]
          /\ UNCHANGED body
       \/ /\ body' = [body EXCEPT ![r] = res[r]]
          /\ pc' = [pc EXCEPT ![r] = "read"]
    /\ UNCHANGED <<api_host, app_auth, sent, res, a_model, ret, calls, logged, issued,
                   booked, conferences>>
    /\ UNCHANGED <<tueVars, emailVars>>

\* the match on serde_json::from_str::<Vec<Conferences>>(&body), then Ok(())
ParseAndSave(r) ==
    /\ pc[r] = "read"
    /\ LET parsed == ParseConferences(Unwrap(OwnBody(r)))
           first == First(parsed.val)
       IN  IF ~parsed.ok
           THEN /\ logged' = [logged EXCEPT ![r] = @ + 2]
                /\ pc' = [pc EXCEPT ![r] = "done"]
                /\ ret' = [ret EXCEPT ![r] = RetAfterParseError]
                /\ UNCHANGED <<calls, conferences, a_model>>
           ELSE IF first = None
           THEN /\ pc' = [pc EXCEPT ![r] = "panicked"]
                /\ UNCHANGED <<calls, conferences, logged, ret, a_model>>
           ELSE /\ calls' = Bump(r, "save")
                /\ a_model' = [a_model EXCEPT
                                 ![r] = Some(FromConferences(Unwrap(first), now))]
                /\ \/ /\ conferences' = save_conf(conferences, Unwrap(a_model'[r]))
                      /\ pc' = [pc EXCEPT ![r] = "done"]
                      /\ ret' = [ret EXCEPT ![r] = Some("Ok")]
                   \/ /\ pc' = [pc EXCEPT ![r] = "panicked"]
                      /\ UNCHANGED <<conferences, ret>>
                /\ UNCHANGED logged
    /\ UNCHANGED <<api_host, app_auth, sent, res, body, issued, booked>>
    /\ UNCHANGED <<tueVars, emailVars>>

InitConf ==
    /\ now = TueFromMonday * MinutesPerDay + TargetTime
    /\ zone = FixedZone(0)
    /\ tuesday = None
    /\ api_host \in BOOLEAN
    /\ ConfIdle
    /\ EmailIdle

NextConf ==
    \E r \in Reqs :
        \/ AccountAuth(r)
        \/ CreateConference(r)
        \/ ReadBody(r)
        \/ ParseAndSave(r)

SpecConf == InitConf /\ [][NextConf]_vars

(***************************************************************************)
(* The notifications of EmailSender, one invocation at a time.  The        *)
(* storage lookups are steps of their own (they are awaited); send is      *)
(* split into rendering, building the message and the SMTP exchange.       *)
(***************************************************************************)
Months == {1, 12}

Score(month) == [year |-> 2025, month |-> month, new_score |-> 60,
                 consumption_score |-> 100, balance |-> 15]

TaskInvocations ==
    { Invocation(k, Task(sl, ml), 100, None, NoScore, {}, Name("welcome", "html"),
                 "alice@example.com", <<>>) :
        k \in TaskKinds, sl \in Options(StudentLogins), ml \in MentorLogins }

MonthlyInvocations ==
    { Invocation("monthly", Task(None, "carol"), 0, st, Score(m), fin,
                 Name("welcome", "html"), "alice@example.com", <<>>) :
        st \in Options(UNION { StudentRows(l) : l \in StudentLogins }),
        m \in Months,
        fin \in SUBSET (MentorLogins \cup {""}) }

DirectReceivers == {"alice@example.com", "not-an-address"}
DirectCc == {"carol@example.com", "dave@example.com", "not-an-address"}

DirectInvocations ==
    { Invocation("direct", Task(None, "carol"), 0, None, NoScore, {}, t, rcv, cc) :
        t \in TemplateNames, rcv \in DirectReceivers,
        cc \in SeqsUpTo(Options(DirectCc), MaxCc) }

Envs == [template_dir : BOOLEAN, zepto : BOOLEAN]

InitEmail ==
    /\ now = 0
    /\ zone = FixedZone(0)
    /\ tuesday = None
    /\ api_host = TRUE
    /\ ConfIdle
    /\ env \in Envs
    /\ \/ /\ einv \in TaskInvocations
          /\ students \in StudentTables
          /\ mentors \in MentorTables
       \/ /\ einv \in MonthlyInvocations
          /\ students = EmptyTable(StudentLogins)
          /\ mentors \in MentorTables
       \/ /\ einv \in DirectInvocations
          /\ students = EmptyTable(StudentLogins)
          /\ mentors = EmptyTable(MentorLogins)
    /\ epc = "start"
    /\ EmailLocalsFresh

Count1(field) == [lookups EXCEPT ![field] = @ + 1]

\* mutant: a missing student row is replaced by a placeholder student
StudentOrPlaceholder(row) ==
    IF row = None
    THEN Some([github_login |-> "", student_name |-> <<"name", "">>,
               email |-> "alice@example.com"])
    ELSE row

\* let student = ..get_student_by_login(..).await.unwrap(): the Option as the
\* storage returned it
StudentResult(row) == row

\* student_stg().get_student_by_login(login).await, and what follows the
\* await: .unwrap() (and in assigned_email a second .unwrap())
LookupStudent ==
    /\ epc = "start"
    /\ einv.kind \in TaskKinds
    /\ IF einv.task.student_github_login = None
       THEN /\ epc' = "done"
            /\ UNCHANGED <<student, lookups>>
       ELSE /\ lookups' = Count1("student")
            /\ \/ /\ epc' = "panicked"
                  /\ UNCHANGED student
               \/ LET row == students[Unwrap(einv.task.student_github_login)]
                  IN  IF einv.kind = "assigned" /\ row = None
                      THEN /\ epc' = "panicked"
                           /\ UNCHANGED student
                      ELSE /\ student' = StudentResult(row)
                           /\ epc' = "student_fetched"
    /\ UNCHANGED <<einv, env, students, mentors, cc_email, sender, render_result, message,
                   readable, smtp, elog>>
    /\ UNCHANGED <<tueVars, confVars>>

\* the and_then closure on the mentor row
\* mutant: the mentor's status is not looked at
MentorCcAnyStatus(row) ==
    IF IsSome(row) THEN Some(Unwrap(row).email) ELSE None

MentorCc(row) ==
    IF IsSome(row) /\ IsActive(Unwrap(row)) THEN Some(Unwrap(row).email) ELSE None

\* mentor_stg().get_mentor_by_login(login).await.unwrap().and_then(..)
LookupMentor ==
    /\ epc = "student_fetched"
    /\ lookups' = Count1("mentor")
    /\ \/ /\ epc' = "panicked"
          /\ UNCHANGED cc_email
       \/ /\ cc_email' = <<MentorCc(mentors[einv.task.mentor_github_login])>>
          /\ epc' = "mentor_fetched"
    /\ UNCHANGED <<einv, env, students, mentors, student, sender, render_result, message,
                   readable, smtp, elog>>
    /\ UNCHANGED <<tueVars, confVars>>

\* if let Some(student) = student (failed_email, complete_email), the
\* context and EmailSender::new
TaskConstruct ==
    /\ epc = "mentor_fetched"
    /\ IF student = None
       THEN /\ epc' = "done"
            /\ UNCHANGED sender
       ELSE /\ sender' = Some(New(TemplateOf(einv.kind),
                                  SubjectOf(einv.kind, 0),
                                  TaskContext(einv.kind, Unwrap(student), einv.task,
                                              einv.balance),
                                  Unwrap(student).email,
                                  cc_email))
            /\ epc' = "constructed"
    /\ UNCHANGED <<einv, env, students, mentors, student, cc_email, render_result, message,
                   readable, smtp, elog, lookups>>
    /\ UNCHANGED <<tueVars, confVars>>

\* the rows get_mentors_by_logins returns for the mentors of the finished
\* tasks, empty logins filtered out
FinishedMentors ==
    { Unwrap(mentors[l]) : l \in { m \in einv.finished \cap MentorLogins :
                                     IsSome(mentors[m]) } }

\* .filter(|model| model.status == "active").map(|model| Some(model.email))
ActiveEmails(rows) ==
    LET active == SelectSeq(rows, LAMBDA row : row.status = "active")
    IN  [i \in 1..Len(active) |-> Some(active[i].email)]

\* monthly_score_email
MonthlyConstruct ==
    /\ epc = "start"
    /\ einv.kind = "monthly"
    /\ IF einv.student_arg = None
       THEN /\ epc' = "done"
            /\ UNCHANGED <<student, cc_email, sender, lookups>>
       ELSE \/ /\ epc' = "panicked"
               /\ \/ lookups' = Count1("task")
                  \/ lookups' = [lookups EXCEPT !.task = @ + 1, !.mentor = @ + 1]
               /\ UNCHANGED <<student, cc_email, sender>>
            \/ \E rows \in Orderings(FinishedMentors) :
               /\ lookups' = [lookups EXCEPT !.task = @ + 1, !.mentor = @ + 1]
               /\ student' = einv.student_arg
               /\ cc_email' = ActiveEmails(rows)
               /\ sender' = Some(New(TemplateOf("monthly"),
                                     SubjectOf("monthly", einv.last_month.month),
                                     MonthlyContext(Unwrap(einv.student_arg),
                                                    einv.last_month),
                                     Unwrap(einv.student_arg).email,
                                     ActiveEmails(rows)))
               /\ epc' = "constructed"
    /\ UNCHANGED <<einv, env, students, mentors, render_result, message, readable, smtp,
                   elog>>
    /\ UNCHANGED <<tueVars, confVars>>

\* a caller building an EmailSender of its own (as test_email does)
DirectConstruct ==
    /\ epc = "start"
    /\ einv.kind = "direct"
    /\ cc_email' = einv.cc
    /\ sender' = Some(New(einv.template_name, <<"subject">>, <<>>, einv.receiver, einv.cc))
    /\ epc' = "constructed"
    /\ UNCHANGED <<einv, env, students, mentors, student, render_result, message, readable,
                   smtp, elog, lookups>>
    /\ UNCHANGED <<tueVars, confVars>>

\* what render_mjml or Tera produce from a template and a context
Html(s) == <<"html", s.template_name, s.context>>

\* mutant: a render failure is logged and send carries on
OnRenderErrorCarryOn == "rendered"

\* the Err(e) arm of the match on render_result: log and return
OnRenderError == "done"

\* send: render_result and the match on it
SendRender ==
    /\ epc = "constructed"
    /\ IF ~env.template_dir
       THEN /\ epc' = "panicked"
            /\ UNCHANGED <<render_result, elog>>
       ELSE \/ /\ render_result' = Some([ok |-> TRUE, val |-> Html(Unwrap(sender))])
               /\ epc' = "rendered"
               /\ UNCHANGED elog
            \/ \E stage \in RenderStages(Unwrap(sender).template_name) :
               /\ render_result' = Some([ok |-> FALSE, val |-> <<stage>>])
               /\ elog' = Append(elog, "error:render")
               /\ epc' = OnRenderError
    /\ UNCHANGED <<einv, env, students, mentors, student, cc_email, sender, message,
                   readable, smtp, lookups>>
    /\ UNCHANGED <<tueVars, confVars>>

HtmlPart(html) == [content_type |-> "text/html", cid |-> None, content |-> html]
ImagePart(img) == [content_type |-> "image/png", cid |-> Some(img.cid), content |-> <<img.path>>]

\* the loop over cid_images_for_template in send
RECURSIVE InlineParts(_, _)
InlineParts(imgs, rd) ==
    IF imgs = <<>> THEN <<>>
    ELSE (IF Head(imgs).path \in rd THEN <<ImagePart(Head(imgs))>> ELSE <<>>)
         \o InlineParts(Tail(imgs), rd)

Paths(imgs) == { imgs[i].path : i \in DOMAIN imgs }

\* the body of the message: multipart/related for .mjml, else one part
MessageBody(s, html, rd) ==
    IF EndsWithMjml(s.template_name)
    THEN [kind |-> "multipart/related",
          parts |-> <<HtmlPart(html)>>
                    \o InlineParts(cid_images_for_template(s.template_name), rd)]
    ELSE [kind |-> "singlepart", parts |-> <<HtmlPart(html)>>]

\* send: the message builder, the cc loop and the parts
SendBuild ==
    /\ epc = "rendered"
    /\ LET s == Unwrap(sender)
           to == ParseMailbox(s.receiver)
           imgs == IF EndsWithMjml(s.template_name)
                   THEN cid_images_for_template(s.template_name) ELSE <<>>
           skipped == Len(s.cc_email) - Len(CcMailboxes(s.cc_email))
       IN  IF ~to.ok
           THEN /\ epc' = "panicked"
                /\ UNCHANGED <<message, readable, elog>>
           ELSE \E rd \in SUBSET Paths(imgs) :
                /\ readable' = rd
                /\ message' = Some([ from    |-> "no-reply@r2cn.dev",
                                     to      |-> to.val,
                                     cc      |-> CcMailboxes(s.cc_email),
                                     subject |-> s.subject,
                                     body    |-> MessageBody(s, Unwrap(render_result).val, rd) ])
                /\ elog' = elog \o Lines(skipped, "warn:cc")
                                \o Lines(Len(imgs) - Cardinality(rd), "warn:image")
                /\ epc' = "built"
    /\ UNCHANGED <<einv, env, students, mentors, student, cc_email, sender, render_result,
                   smtp, lookups>>
    /\ UNCHANGED <<tueVars, confVars>>

\* mutant: a failed send is tried once more
AttemptsWithRetry(outcome) == smtp.attempts + (IF outcome = "send_error" THEN 2 ELSE 1)

\* match mailer.send(&email): one call, its result only logged
AttemptsAfterSend(outcome) == smtp.attempts + 1

\* send: the credentials, the relay and mailer.send
SendSmtp ==
    /\ epc = "built"
    /\ IF ~env.zepto
       THEN /\ epc' = "panicked"
            /\ UNCHANGED <<smtp, elog>>
       ELSE \/ /\ epc' = "panicked"
               /\ UNCHANGED <<smtp, elog>>
            \/ \E outcome \in {"sent", "send_error"} :
               /\ smtp' = [attempts |-> AttemptsAfterSend(outcome), result |-> outcome]
               /\ elog' = Append(elog, IF outcome = "sent" THEN "info:sent"
                                       ELSE "error:smtp")
               /\ epc' = "done"
    /\ UNCHANGED <<einv, env, students, mentors, student, cc_email, sender, render_result,
                   message, readable, lookups>>
    /\ UNCHANGED <<tueVars, confVars>>

NextEmail ==
    \/ LookupStudent
    \/ LookupMentor
    \/ TaskConstruct
    \/ MonthlyConstruct
    \/ DirectConstruct
    \/ SendRender
    \/ SendBuild
    \/ SendSmtp

SpecEmail == InitEmail /\ [][NextEmail]_vars

(***************************************************************************)
(* Properties of the notifications and of EmailSender::send.               *)
(***************************************************************************)
Ended == epc \in {"done", "panicked"}
Rendered == IsSome(render_result) /\ Unwrap(render_result).ok
RenderFailed == IsSome(render_result) /\ ~Unwrap(render_result).ok

\* a task notification for a task whose student login is set and whose
\* student row exists
StudentKnown ==
    /\ einv.kind \in TaskKinds
    /\ IsSome(einv.task.student_github_login)
    /\ IsSome(students[Unwrap(einv.task.student_github_login)])

\* C1 as stated, for the invocations that return: every invocation of
\* assigned_email, failed_email or complete_email on a task with a student
\* login whose student row exists attempts exactly one SMTP send, never zero
\* and never more than one.  (An invocation that panics attempts none.)
C1_ExactlyOneSend ==
    StudentKnown =>
        /\ smtp.attempts <= 1
        /\ epc = "done" => smtp.attempts = 1

\* C1 amended: such an invocation attempts at most one SMTP send; it
\* attempts exactly one when it returns with the template rendered, and
\* none when rendering failed; a send that fails is logged and not retried.
C1_AtMostOneSend ==
    StudentKnown =>
        /\ smtp.attempts <= 1
        /\ (epc = "done" /\ Rendered) => smtp.attempts = 1
        /\ (Ended /\ ~Rendered) => smtp.attempts = 0
        /\ smtp.result = "send_error" =>
              /\ epc = "done"
              /\ smtp.attempts = 1
              /\ elog[Len(elog)] = "error:smtp"

\* C1 witness: a task notification whose one send failed
C1_SendFailedOnce ==
    /\ StudentKnown
    /\ epc = "done"
    /\ smtp = [attempts |-> 1, result |-> "send_error"]

\* C6: an SMTP send is attempted only after the template was rendered; when
\* template-engine initialisation, template rendering, MJML parsing or MJML
\* rendering fails, send logs the error and returns, with no message built
\* and no SMTP send attempted.
C6_NoSendWithoutRender ==
    /\ RenderFailed =>
          /\ epc = "done"
          /\ elog = <<"error:render">>
          /\ message = None
          /\ smtp.attempts = 0
    /\ (smtp.attempts > 0 \/ IsSome(message)) => Rendered

\* C6 witness: send returned after MJML parsing failed
C6_MjmlParseFailed ==
    /\ epc = "done"
    /\ render_result = Some([ok |-> FALSE, val |-> <<"mjml_parse">>])

\* the student row a notification is about
StudentOf(inv) ==
    IF inv.kind = "monthly" THEN Unwrap(inv.student_arg)
    ELSE Unwrap(students[Unwrap(inv.task.student_github_login)])

\* C7: assigned_email uses task_assigned.mjml, failed_email task_failed.mjml,
\* complete_email task_completed_points.mjml and monthly_score_email
\* monthly_points_summary.mjml, and the receiver, and the To address of the
\* message, is the email of the student row.
C7_OwnTemplateToStudent ==
    (IsSome(sender) /\ einv.kind \in TaskKinds \cup {"monthly"}) =>
        /\ einv.kind = "assigned" =>
              Unwrap(sender).template_name = [stem |-> "task_assigned", ext |-> "mjml"]
        /\ einv.kind = "failed" =>
              Unwrap(sender).template_name = [stem |-> "task_failed", ext |-> "mjml"]
        /\ einv.kind = "complete" =>
              Unwrap(sender).template_name =
                  [stem |-> "task_completed_points", ext |-> "mjml"]
        /\ einv.kind = "monthly" =>
              Unwrap(sender).template_name =
                  [stem |-> "monthly_points_summary", ext |-> "mjml"]
        /\ Unwrap(sender).receiver = StudentOf(einv).email
        /\ Rendered => Unwrap(render_result).val[2] = Unwrap(sender).template_name
        /\ IsSome(message) => Unwrap(message).to.email = StudentOf(einv).email

\* C7 witness: a completion notification sent to bob
C7_CompletionSentToBob ==
    /\ einv.kind = "complete"
    /\ smtp.result = "sent"
    /\ Unwrap(message).to.email = "bob@example.com"

Cids(parts) == [i \in DOMAIN parts |-> parts[i].cid]

\* the content ids the claim lists for a template name
ClaimedCids(template_name) ==
    IF template_name.ext = "mjml" /\ template_name.stem \in KnownStems
    THEN <<"background", "task_status">>
    ELSE <<"background">>

\* what C8 says of cid_images_for_template, for every template name
CidImagesAsClaimed ==
    \A t \in TemplateNames :
        LET imgs == cid_images_for_template(t)
        IN  /\ Cids(imgs) = ClaimedCids(t)
            /\ Len(imgs) \in {1, 2}
            /\ \A i, j \in DOMAIN imgs : i # j => imgs[i].cid # imgs[j].cid

\* C8 as stated: for a .mjml template the message is multipart/related, its
\* first part the rendered HTML, followed by the inline images of
\* cid_images_for_template in that order.
C8_AllImagesInline ==
    /\ CidImagesAsClaimed
    /\ (IsSome(message) /\ EndsWithMjml(Unwrap(sender).template_name)) =>
          LET parts == Unwrap(message).body.parts
          IN  /\ Unwrap(message).body.kind = "multipart/related"
              /\ parts[1] = HtmlPart(Unwrap(render_result).val)
              /\ Cids(Tail(parts)) =
                    [i \in DOMAIN ClaimedCids(Unwrap(sender).template_name) |->
                        Some(ClaimedCids(Unwrap(sender).template_name)[i])]

\* the claimed content ids whose image file could be read, in order
RECURSIVE ReadableCids(_, _)
ReadableCids(imgs, rd) ==
    IF imgs = <<>> THEN <<>>
    ELSE (IF Head(imgs).path \in rd THEN <<Some(Head(imgs).cid)>> ELSE <<>>)
         \o ReadableCids(Tail(imgs), rd)

\* the image files the claim's list names for a template name
ClaimedPaths(template_name) ==
    <<"templates/image/background.png">>
    \o (IF template_name.ext # "mjml" THEN <<>>
        ELSE IF template_name.stem = "task_assigned"
        THEN <<"templates/image/task_assigned.png">>
        ELSE IF template_name.stem = "task_failed"
        THEN <<"templates/image/task_failed.png">>
        ELSE IF template_name.stem = "task_completed_points"
        THEN <<"templates/image/task_completed.png">>
        ELSE IF template_name.stem = "monthly_points_summary"
        THEN <<"templates/image/task_points.png">>
        ELSE <<>>)

\* C8 amended: for a .mjml template the message is multipart/related, its
\* first part the rendered HTML, followed by those inline images of
\* cid_images_for_template whose file could be read, in that order (an
\* image that cannot be read is skipped with a warning); the list itself is
\* the background image first, then one task_status image for the four
\* known templates, so it has length 1 or 2 with distinct content ids.
C8_ReadableImagesInline ==
    /\ CidImagesAsClaimed
    /\ (IsSome(message) /\ EndsWithMjml(Unwrap(sender).template_name)) =>
          LET parts == Unwrap(message).body.parts
              t == Unwrap(sender).template_name
              claimed == [i \in DOMAIN ClaimedCids(t) |->
                             [path |-> ClaimedPaths(t)[i], cid |-> ClaimedCids(t)[i]]]
          IN  /\ Unwrap(message).body.kind = "multipart/related"
              /\ parts[1] = HtmlPart(Unwrap(render_result).val)
              /\ Cids(Tail(parts)) = ReadableCids(claimed, readable)
              /\ Len(elog) >= Len(claimed) - Len(Tail(parts))

\* C8 witness: a message for a known template with only the status image
\* readable
C8_BackgroundSkipped ==
    /\ IsSome(message)
    /\ Unwrap(sender).template_name = [stem |-> "task_failed", ext |-> "mjml"]
    /\ readable = {"templates/image/task_failed.png"}
    /\ Len(Unwrap(message).body.parts) = 2

\* a task notification for a task with no student login
NoStudentLogin ==
    /\ einv.kind \in TaskKinds
    /\ einv.task.student_github_login = None

\* a task notification for a task whose student login has no student row
StudentMissing ==
    /\ einv.kind \in TaskKinds
    /\ IsSome(einv.task.student_github_login)
    /\ students[Unwrap(einv.task.student_github_login)] = None

NoLookups == [student |-> 0, mentor |-> 0, task |-> 0]

\* nothing of an email exists: no sender, no message, no SMTP send
NothingSent == sender = None /\ message = None /\ smtp.attempts = 0

\* the student lookup has answered: the notification is past its first await
StudentLookupAnswered == epc \in {"student_fetched", "mentor_fetched"} \/ lookups.mentor > 0

\* C11 as stated: without a student login the task notifications perform no
\* storage lookup and no send; once the student lookup has answered that the
\* login has no student row, failed_email and complete_email send nothing and
\* return normally (they never panic), and assigned_email panics before any
\* send.
C11_NoStudentNoEmailReturns ==
    /\ NoStudentLogin => (lookups = NoLookups /\ NothingSent /\ epc \in {"start", "done"})
    /\ StudentMissing =>
          /\ NothingSent
          /\ einv.kind = "assigned" => epc \in {"start", "panicked"}
          /\ (einv.kind \in {"failed", "complete"} /\ StudentLookupAnswered) =>
                epc # "panicked"

\* C11 amended: without a student login the task notifications perform no
\* storage lookup and no send and return; with a login but no student row
\* nothing is ever sent: assigned_email panics right after the student
\* lookup, before the mentor lookup and any send, while failed_email and
\* complete_email still look the mentor up and then return normally, unless
\* one of the two storage lookups itself fails, which panics.
C11_NoStudentNoEmail ==
    /\ [](/\ NoStudentLogin =>
               (lookups = NoLookups /\ NothingSent /\ epc \in {"start", "done"})
          /\ StudentMissing =>
               /\ NothingSent
               /\ lookups.student <= 1 /\ lookups.mentor <= 1
               /\ einv.kind = "assigned" =>
                     (epc \in {"start", "panicked"} /\ lookups.mentor = 0)
               /\ einv.kind \in {"failed", "complete"} =>
                     /\ epc \in {"start", "student_fetched", "mentor_fetched", "done",
                                 "panicked"}
                     /\ epc = "done" => lookups = [student |-> 1, mentor |-> 1, task |-> 0])
    /\ [][(StudentMissing /\ einv.kind \in {"failed", "complete"}) =>
             /\ (epc # "panicked" /\ epc' = "panicked") =>
                   /\ epc \in {"start", "student_fetched"}
                   /\ lookups' # lookups
             /\ epc = "mentor_fetched" => epc' = "done"]_vars

\* C11 witness: failed_email returned without a send for a login that has no
\* student row
C11_FailedEmailReturnedUnsent ==
    /\ StudentMissing
    /\ einv.kind = "failed"
    /\ epc = "done"
    /\ lookups.mentor = 1
    /\ NothingSent

\* the mentor row of the task's mentor login exists and its status is Active
MentorActive ==
    /\ mentors[einv.task.mentor_github_login] # None
    /\ mentors[einv.task.mentor_github_login][1].status = "active"

MentorEmail == mentors[einv.task.mentor_github_login][1].email

\* C12: in assigned_email, failed_email and complete_email the CC list given
\* to the EmailSender holds the mentor's email, and nothing else, if and only
\* if the mentor row of the task's mentor login exists and its status is
\* Active (the built message then carries it as its only CC when the address
\* parses); when the mentor is missing or not active the notification still
\* goes on to its send for the known student, the message is addressed to
\* the student and has no CC.
C12_MentorCcIffActive ==
    einv.kind \in TaskKinds =>
        /\ epc \in {"mentor_fetched", "constructed", "rendered", "built"} =>
              cc_email = <<IF MentorActive THEN <<MentorEmail>> ELSE <<>> >>
        /\ IsSome(sender) =>
              sender[1].cc_email = (IF MentorActive THEN <<MentorEmail>> ELSE <<>>)
        /\ IsSome(message) =>
              /\ message[1].to.email = StudentOf(einv).email
              /\ message[1].cc = (IF MentorActive /\ MentorEmail \in WellFormed
                                  THEN <<[email |-> MentorEmail]>> ELSE <<>>)
        /\ (StudentKnown /\ ~MentorActive /\ epc = "done") =>
              /\ IsSome(sender)
              /\ Rendered => (IsSome(message) /\ smtp.attempts = 1)

\* C12 witness: a notification was sent to the student with no CC because the
\* mentor row exists but is not active
C12_SentWithoutInactiveMentor ==
    /\ einv.kind \in TaskKinds
    /\ mentors[einv.task.mentor_github_login] # None
    /\ ~MentorActive
    /\ smtp.result = "sent"
    /\ message[1].to.email = StudentOf(einv).email
    /\ message[1].cc = <<>>

\* the entries of a CC list that are present, in their order
PresentCc(opts) ==
    LET kept == SelectSeq(opts, LAMBDA o : o # None)
    IN  [i \in DOMAIN kept |-> kept[i][1]]

\* the addresses of a CC list that parse, in their order, as mailboxes
ValidCc(addrs) ==
    LET kept == SelectSeq(addrs, LAMBDA a : a \in WellFormed)
    IN  [i \in DOMAIN kept |-> [email |-> kept[i]]]

WarnCcLines == Len(SelectSeq(elog, LAMBDA l : l = "warn:cc"))

\* C13: the CC list of an EmailSender is the list given to EmailSender::new
\* without its absent entries, the others in their original order; the
\* message send builds carries, in that order, every CC address that parses
\* and none that does not, with one warning per skipped address; and a
\* rendered email whose receiver parses is built and handed to SMTP (once the
\* credentials and the relay are there) whatever its CC entries are.
C13_BadCcNeverPreventsSend ==
    /\ IsSome(sender) => sender[1].cc_email = PresentCc(cc_email)
    /\ IsSome(message) =>
          /\ message[1].to.email = sender[1].receiver
          /\ message[1].cc = ValidCc(PresentCc(cc_email))
          /\ WarnCcLines = Len(PresentCc(cc_email)) - Len(ValidCc(PresentCc(cc_email)))
    /\ message = None => WarnCcLines = 0
    /\ (IsSome(sender) /\ Rendered /\ sender[1].receiver \in WellFormed
          /\ epc \in {"built", "done", "panicked"}) => IsSome(message)
    /\ (IsSome(message) /\ epc = "done") => smtp.attempts = 1

\* C13 witness: an email was sent with its one valid CC address although the
\* CC list began with an address that does not parse
C13_SentPastBadCc ==
    /\ einv.kind = "direct"
    /\ cc_email = <<Some("not-an-address"), Some("carol@example.com")>>
    /\ smtp.result = "sent"
    /\ message[1].cc = <<[email |-> "carol@example.com"]>>
    /\ WarnCcLines = 1

(***************************************************************************)
(* Properties of conference_create.                                        *)
(***************************************************************************)
Finished(r) == pc[r] \in {"done", "panicked"}
ParsedOk(r) == IsSome(body[r]) /\ ParseConferences(Unwrap(body[r])).ok
ParseFailed(r) == IsSome(body[r]) /\ ~ParseConferences(Unwrap(body[r])).ok
Saved(r) == pc[r] = "done" /\ calls[r].save = 1

\* C2: within one invocation the authentication request, the creation
\* request and the record save are each performed at most once, whatever
\* the outcome of any step, and a conference booked on the platform stays
\* booked when a later step (reading, parsing, saving) fails.
C2_EachStepAtMostOnce ==
    \A r \in Reqs :
        /\ calls[r].auth <= 1
        /\ calls[r].create <= 1
        /\ calls[r].save <= 1
        /\ IsSome(res[r]) => booked[r] = Unwrap(res[r]).items

\* C2 witness: a request whose save failed after a conference was booked
C2_SaveFailedAfterBooking ==
    \E r \in Reqs :
        /\ pc[r] = "panicked"
        /\ calls[r] = [auth |-> 1, create |-> 1, save |-> 1]
        /\ booked[r] # <<>>

\* C3: the creation call is issued only after a successful authentication
\* and carries the token that authentication returned; a record is handed
\* to save_conf only after the creation response was received, read and
\* parsed as a list; nothing is saved when authentication or creation failed.
C3_FixedOrder ==
    \A r \in Reqs :
        /\ calls[r].create > 0 =>
              /\ calls[r].auth = 1
              /\ IsSome(app_auth[r])
              /\ IsSome(sent[r])
              /\ Unwrap(sent[r]).token = Unwrap(app_auth[r]).access_token
              /\ Unwrap(sent[r]).token \in DOMAIN issued
              /\ issued[Unwrap(sent[r]).token] = r
        /\ calls[r].save > 0 =>
              /\ calls[r].create = 1
              /\ IsSome(res[r])
              /\ ParsedOk(r)
        /\ (app_auth[r] = None \/ res[r] = None) =>
              /\ calls[r].save = 0
              /\ a_model[r] = None
              /\ ~Saved(r)

\* C3 witness: a request that went through all steps and saved its record
C3_RequestSaved ==
    \E r \in Reqs : Saved(r) /\ IsSome(a_model[r]) /\ IsSome(sent[r])

\* C4: when the creation response body does not parse as a list of
\* conferences, the handler logs the error, hands nothing to save_conf,
\* leaves the conference table unchanged and returns Ok(()).
C4_ParseFailureIsLoggedAndDropped ==
    /\ [](\A r \in Reqs :
            (ParseFailed(r) /\ pc[r] # "read") =>
                /\ pc[r] = "done"
                /\ ret[r] = Some("Ok")
                /\ logged[r] >= 1
                /\ calls[r].save = 0
                /\ a_model[r] = None)
    /\ [][\A r \in Reqs :
            (ParseFailed(r) /\ pc[r] = "read" /\ pc'[r] # "read") =>
                conferences' = conferences]_vars

\* C4 witness: a request that has handled an unparsable body
C4_UnparsableBodyHandled ==
    \E r \in Reqs : pc[r] = "done" /\ body[r] = Some(OtherBody)

\* the twelve mirrored fields, platform_type and id of a saved record
Mirrors(rec, conf) ==
    /\ rec.conference_id = Set(conf.conference_id)
    /\ rec.subject = Set(conf.subject)
    /\ rec.start_time = Set(conf.start_time)
    /\ rec.end_time = Set(conf.end_time)
    /\ rec.conference_state = Set(conf.conference_state)
    /\ rec.language = Set(conf.language)
    /\ rec.scheduser_name = Set(conf.scheduser_name)
    /\ rec.record_type = Set(conf.record_type)
    /\ rec.is_auto_record = Set(conf.is_auto_record)
    /\ rec.conf_type = Set(conf.conf_type)
    /\ rec.chair_join_uri = Set(conf.chair_join_uri)
    /\ rec.guest_join_uri = Set(conf.guest_join_uri)
    /\ rec.platform_type = Set("huaweimeeting")
    /\ rec.id = NotSet

\* C5: a request hands at most one record to save_conf, and that record
\* mirrors the first conference of its response (twelve fields copied,
\* platform_type "huaweimeeting", id unset), whatever follows it in the
\* list; on an empty list nothing is saved and the handler does not return.
C5_RecordMirrorsFirstConference ==
    \A r \in Reqs :
        /\ calls[r].save <= 1
        /\ calls[r].save = 1 <=> IsSome(a_model[r])
        /\ IsSome(a_model[r]) =>
              /\ ParsedOk(r)
              /\ Unwrap(body[r]).items # <<>>
              /\ Mirrors(Unwrap(a_model[r]), Unwrap(body[r]).items[1])
        /\ (ParsedOk(r) /\ Unwrap(body[r]).items # <<>> /\ pc[r] # "read") =>
              calls[r].save = 1
        /\ (ParsedOk(r) /\ Unwrap(body[r]).items = <<>> /\ pc[r] # "read") =>
              /\ pc[r] = "panicked"
              /\ ret[r] = None
              /\ calls[r].save = 0
        /\ Saved(r) => ret[r] = Some("Ok")

\* C5 witness: a record saved from a response listing two different
\* conferences
C5_SavedFromLongerList ==
    \E r \in Reqs :
        /\ Saved(r)
        /\ Len(Unwrap(body[r]).items) >= 2
        /\ Unwrap(body[r]).items[1] # Unwrap(body[r]).items[2]

\* the record request r saves in a run of its own
OwnRecord(r) == FromConferences(Unwrap(body[r]).items[1], now)

Count(x) == Cardinality({i \in DOMAIN conferences : conferences[i] = x})

\* C9: under every interleaving of the requests' steps, each request sends
\* the token of its own authentication, and the conference table holds
\* exactly one record per request that saved, built from that request's own
\* response: the table of the requests run one after the other, with equal
\* bookings kept as separate records.
C9_RequestsDoNotInterfere ==
    /\ \A r \in Reqs :
          IsSome(sent[r]) =>
              /\ Unwrap(sent[r]).token = Unwrap(app_auth[r]).access_token
              /\ issued[Unwrap(sent[r]).token] = r
              /\ \A q \in Reqs \ {r} :
                    IsSome(sent[q]) => Unwrap(sent[q]).token # Unwrap(sent[r]).token
    /\ Len(conferences) = Cardinality({r \in Reqs : Saved(r)})
    /\ \A r \in Reqs : Saved(r) => (ParsedOk(r) /\ Unwrap(body[r]).items # <<>>)
    /\ \A r \in Reqs :
          Saved(r) =>
              Count(OwnRecord(r)) = Cardinality({q \in Reqs : Saved(q) /\ OwnRecord(q) = OwnRecord(r)})

\* C9 witness: every request saved, and the request that authenticated
\* later saved a different booking first
C9_AllSavedInterleaved ==
    /\ \A r \in Reqs : Saved(r)
    /\ \E r, q \in Reqs :
          /\ r # q
          /\ OwnRecord(r) # OwnRecord(q)
          /\ Unwrap(app_auth[r]).access_token > Unwrap(app_auth[q]).access_token
          /\ conferences[1] = OwnRecord(r)

(***************************************************************************)
(* Properties of next_tuesday_8pm.                                         *)
(***************************************************************************)
\* the result is the first Tuesday 20:00 strictly after the local time
IsNextTuesday8pm(str, local) ==
    LET weekday == NumDaysFromMonday(DateOf(local))
        ahead == str.date - DateOf(local)
    IN  /\ NumDaysFromMonday(str.date) = 1
        /\ str.hour = 20
        /\ str.minute = 0
        /\ NaiveOf(str) > local
        /\ NaiveOf(str) - 7 * MinutesPerDay <= local
        /\ ahead = CASE weekday = 0 -> 1
                     [] weekday = 1 -> (IF TimeOf(local) < 20 * 60 THEN 0 ELSE 7)
                     [] weekday = 2 -> 6
                     [] weekday = 3 -> 5
                     [] weekday = 4 -> 4
                     [] weekday = 5 -> 3
                     [] weekday = 6 -> 2

\* C10: for every current local date and time the result is a Tuesday at
\* 20:00, strictly later than the current local time and the earliest such:
\* the same day on a Tuesday before 20:00, seven days ahead on a Tuesday at
\* or after 20:00, otherwise 1 to 6 days ahead (Mon 1, Wed 6, Thu 5, Fri 4,
\* Sat 3, Sun 2).
C10_NextTuesdayIsEarliest ==
    IsSome(tuesday) => IsNextTuesday8pm(Unwrap(tuesday), NaiveLocal(zone, now))

\* the same statement for hosts whose zone has no offset transition
NextTuesdayInFixedZone ==
    (IsSome(tuesday) /\ zone.at < 0) =>
        IsNextTuesday8pm(Unwrap(tuesday), NaiveLocal(zone, now))

====
